---- MODULE Spec2Model ----
(***************************************************************************)
(* Model of the two monitoring scripts of the repository:                  *)
(*   MonitoringAgent  (monitoring_agent.py):  scan log files for "ERROR",  *)
(*       index the batch in Elasticsearch, then WhatsApp, email, Teams     *)
(*       meeting and PDF report;                                           *)
(*   MonitoringSystem (monitoring_system.py): ping servers, index the      *)
(*       failures, then WhatsApp, email and PDF report.                    *)
(* A Python string is a sequence of one-character strings (literal pieces  *)
(* of a format string are kept as one element).  External calls            *)
(* (Elasticsearch, Twilio, SMTP, Graph, FPDF) either return or raise; a     *)
(* raise propagates out of run(), which has no try/except.  Log files are  *)
(* UTF-8 text; a file is missing, unreadable (open raises OSError) or      *)
(* readable.  Each script is started again for every poll (run() is called *)
(* once per process); nothing but the files and the store outlives a run.  *)
(***************************************************************************)
EXTENDS Integers, Sequences, FiniteSets, TLC

VARIABLES
    libs,        \* the optional imports succeeded (all five names, or all None)
    env,         \* the environment variables that are set (non-empty)
    files,       \* path index -> the file on disk
    now,         \* wall clock, minutes
    pc,          \* position inside run(): "idle" or the next call to make
    prog,        \* which script this process runs: "agent" or "system"
    events,      \* run()'s local list of detected events
    message,     \* run()'s local message
    attempts,    \* calls made by the current (or last) run, in order
    store,       \* documents indexed in Elasticsearch index "monitoring"
    polls,       \* history: one record per scan_logs/check_servers call
    runs,        \* number of run() calls started
    status,      \* how the last run() ended: "none", "returned", "raised"
    appends      \* number of lines appended to log files so far

vars == <<libs, env, files, now, pc, prog, events, message, attempts, store,
          polls, runs, status, appends>>

-----------------------------------------------------------------------------
\* Bounds of the model
MaxRuns == 2
MaxAppends == 1
MaxTime == 1

-----------------------------------------------------------------------------
\* Strings

Whitespace == {" ", "\n", "\t"}

RECURSIVE LStrip(_)
LStrip(s) ==
    IF s = <<>> THEN s
    ELSE IF Head(s) \in Whitespace THEN LStrip(Tail(s)) ELSE s

RECURSIVE RStrip(_)
RStrip(s) ==
    IF s = <<>> THEN s
    ELSE IF s[Len(s)] \in Whitespace THEN RStrip(SubSeq(s, 1, Len(s) - 1)) ELSE s

\* str.strip()
Strip(s) == RStrip(LStrip(s))

StartsWith(s, pat) ==
    /\ Len(pat) <= Len(s)
    /\ SubSeq(s, 1, Len(pat)) = pat

\* mutant of Contains: str.startswith instead of `in`
Contains_startswith(pat, s) == StartsWith(s, pat)

\* pat in s
RECURSIVE Contains(_, _)
Contains(pat, s) ==
    IF Len(s) < Len(pat) THEN FALSE
    ELSE IF StartsWith(s, pat) THEN TRUE
    ELSE Contains(pat, Tail(s))

\* sep.join(parts)
RECURSIVE Join(_, _)
Join(sep, parts) ==
    IF parts = <<>> THEN <<>>
    ELSE IF Len(parts) = 1 THEN parts[1]
    ELSE parts[1] \o sep \o Join(sep, Tail(parts))

Pattern == <<"E", "R", "R", "O", "R">>

-----------------------------------------------------------------------------
\* Inputs: log lines, files, configuration

L_ok      == <<"o", "k", "\n">>
L_error   == <<"E", "R", "R", "O", "R", "\n">>
L_disk    == <<" ", "E", "R", "R", "O", "R", " ", "d", "\n">>
L_inword  == <<"x", "E", "R", "R", "O", "R", "S">>
L_lower   == <<"e", "r", "r", "o", "r", "\n">>
L_broken  == <<"E", "R", "R", " ", "O", "R", "\n">>

File(exists, readable, lines) ==
    [exists |-> exists, readable |-> readable, lines |-> lines]

FileSamples ==
    { File(FALSE, FALSE, <<>>),                 \* no such file
      File(TRUE, FALSE, <<L_error>>),           \* open() raises OSError
      File(TRUE, TRUE, <<L_lower, L_broken>>),
      File(TRUE, TRUE, <<L_ok, L_disk, L_ok>>),
      File(TRUE, TRUE, <<L_error, L_inword>>) }

AppendSamples == {L_error}

\* MonitoringAgent(log_paths=[...])
log_paths == << <<"a">>, <<"b">> >>

\* MonitoringSystem(servers=[...])
servers == << <<"s", "1">>, <<"s", "2">> >>

\* os.system() wait statuses of ping: 0 replied, 256 exit 1 (no reply)
ExitStatuses == {0, 256}

AllCredentials ==
    {"TWILIO_SID", "TWILIO_TOKEN", "EMAIL_FROM", "EMAIL_PASSWORD", "GRAPH_TOKEN"}

EnvSamples ==
    { {},
      {"TWILIO_SID"},
      {"TWILIO_SID", "TWILIO_TOKEN"},
      {"EMAIL_FROM", "EMAIL_PASSWORD"},
      {"GRAPH_TOKEN"},
      {"TWILIO_SID", "TWILIO_TOKEN", "EMAIL_FROM", "EMAIL_PASSWORD"},
      {"TWILIO_SID", "TWILIO_TOKEN", "GRAPH_TOKEN"},
      {"EMAIL_FROM", "EMAIL_PASSWORD", "GRAPH_TOKEN"},
      AllCredentials }

-----------------------------------------------------------------------------
\* MonitoringAgent.scan_logs

\* the inner loop over handle.readlines()
RECURSIVE scan_lines(_, _, _)
scan_lines(path, lines, acc) ==
    IF lines = <<>> THEN acc
    ELSE scan_lines(path, Tail(lines),
                    IF Contains(Pattern, Head(lines))
                    THEN Append(acc, path \o <<": ">> \o Strip(Head(lines)))
                    ELSE acc)

\* mutant of scan_paths: `break` instead of `continue` at a missing path
RECURSIVE scan_paths_break(_, _, _, _)
scan_paths_break(paths, fs, i, acc) ==
    IF i > Len(paths) THEN acc
    ELSE IF ~fs[i].exists THEN acc
    ELSE IF ~fs[i].readable THEN scan_paths_break(paths, fs, i + 1, acc)
    ELSE scan_paths_break(paths, fs, i + 1, scan_lines(paths[i], fs[i].lines, acc))

RECURSIVE scan_paths(_, _, _, _)
scan_paths(paths, fs, i, acc) ==
    IF i > Len(paths) THEN acc
    ELSE IF ~fs[i].exists THEN scan_paths(paths, fs, i + 1, acc)
    ELSE IF ~fs[i].readable THEN scan_paths(paths, fs, i + 1, acc)
    ELSE scan_paths(paths, fs, i + 1, scan_lines(paths[i], fs[i].lines, acc))

scan_logs(paths, fs) == scan_paths(paths, fs, 1, <<>>)

\* where each event of scan_logs comes from: <<path index, line index>>
RECURSIVE origin_lines(_, _, _, _)
origin_lines(i, lines, k, acc) ==
    IF k > Len(lines) THEN acc
    ELSE origin_lines(i, lines, k + 1,
                      IF Contains(Pattern, lines[k]) THEN Append(acc, <<i, k>>)
                      ELSE acc)

RECURSIVE origin_paths(_, _, _, _)
origin_paths(paths, fs, i, acc) ==
    IF i > Len(paths) THEN acc
    ELSE IF ~fs[i].exists \/ ~fs[i].readable THEN origin_paths(paths, fs, i + 1, acc)
    ELSE origin_paths(paths, fs, i + 1, origin_lines(i, fs[i].lines, 1, acc))

scan_origins(paths, fs) == origin_paths(paths, fs, 1, <<>>)

-----------------------------------------------------------------------------
\* MonitoringSystem.check_servers

\* resp[i] is the status os.system returns for the ping of servers[i]
RECURSIVE check_loop(_, _, _, _)
check_loop(srv, resp, i, acc) ==
    IF i > Len(srv) THEN acc
    ELSE check_loop(srv, resp, i + 1,
                    [failures |-> IF resp[i] # 0
                                  THEN Append(acc.failures, srv[i])
                                  ELSE acc.failures,
                     probes   |-> Append(acc.probes, srv[i])])

\* mutant of check_servers: compares with ping's exit code 1, not the wait status
RECURSIVE check_loop_exit1(_, _, _, _)
check_loop_exit1(srv, resp, i, acc) ==
    IF i > Len(srv) THEN acc
    ELSE check_loop_exit1(srv, resp, i + 1,
                          [failures |-> IF resp[i] = 1
                                        THEN Append(acc.failures, srv[i])
                                        ELSE acc.failures,
                           probes   |-> Append(acc.probes, srv[i])])

check_servers_exit1(srv, resp) ==
    check_loop_exit1(srv, resp, 1, [failures |-> <<>>, probes |-> <<>>])

check_servers(srv, resp) ==
    check_loop(srv, resp, 1, [failures |-> <<>>, probes |-> <<>>])

-----------------------------------------------------------------------------
\* Configuration guards of the store and the sinks

es_configured     == libs
twilio_configured == libs /\ "TWILIO_SID" \in env /\ "TWILIO_TOKEN" \in env
smtp_configured   == libs /\ "EMAIL_FROM" \in env /\ "EMAIL_PASSWORD" \in env
graph_configured  == libs /\ "GRAPH_TOKEN" \in env
fpdf_configured   == libs

-----------------------------------------------------------------------------
\* The process is one of the two scripts.  Without the libraries the
\* credentials decide nothing, and MonitoringSystem never opens a log file.
Init ==
    /\ libs \in BOOLEAN
    /\ env \in IF libs THEN EnvSamples ELSE {AllCredentials}
    /\ prog \in {"agent", "system"}
    /\ files \in IF prog = "agent"
                 THEN [1..Len(log_paths) -> FileSamples]
                 ELSE {[i \in 1..Len(log_paths) |-> File(FALSE, FALSE, <<>>)]}
    /\ now = 0
    /\ pc = "idle"
    /\ events = <<>>
    /\ message = <<>>
    /\ attempts = <<>>
    /\ store = <<>>
    /\ polls = <<>>
    /\ runs = 0
    /\ status = "none"
    /\ appends = 0

-----------------------------------------------------------------------------
\* Helpers of the run() steps

Attempt(sink, outcome, subject, body) ==
    [sink |-> sink, outcome |-> outcome, subject |-> subject, body |-> body]

\* the statement after a call that returned: the next call, or the end of run()
Proceed(next) ==
    IF next = "idle"
    THEN pc' = "idle" /\ status' = "returned"
    ELSE pc' = next /\ status' = status

\* an exception leaves run(): nothing in run() catches it
Propagate ==
    /\ pc' = "idle"
    /\ status' = "raised"

\* mutant of SinkCall: a missing configuration raises instead of returning
SinkCall_raise_unconfigured(sink, configured, subject, body, next) ==
    \/ /\ ~configured
       /\ attempts' = Append(attempts, Attempt(sink, "raised", subject, body))
       /\ Propagate
    \/ /\ configured
       /\ attempts' = Append(attempts, Attempt(sink, "ok", subject, body))
       /\ Proceed(next)
    \/ /\ configured
       /\ attempts' = Append(attempts, Attempt(sink, "raised", subject, body))
       /\ Propagate

\* a guarded call of a sink: `if not <configured>: print(...); return`, else
\* the external call, which returns or raises
SinkCall(sink, configured, subject, body, next) ==
    \/ /\ ~configured
       /\ attempts' = Append(attempts, Attempt(sink, "skipped", subject, body))
       /\ Proceed(next)
    \/ /\ configured
       /\ attempts' = Append(attempts, Attempt(sink, "ok", subject, body))
       /\ Proceed(next)
    \/ /\ configured
       /\ attempts' = Append(attempts, Attempt(sink, "raised", subject, body))
       /\ Propagate

\* log_to_elastic: `if not self.es: print(...); return`, else es.index(...)
StoreCall(next) ==
    \/ /\ ~es_configured
       /\ attempts' = Append(attempts, Attempt("Store", "skipped", <<>>, message))
       /\ polls' = [polls EXCEPT ![Len(polls)].persist = "skipped"]
       /\ store' = store
       /\ Proceed(next)
    \/ /\ es_configured
       /\ attempts' = Append(attempts, Attempt("Store", "ok", <<>>, message))
       /\ polls' = [polls EXCEPT ![Len(polls)].persist = "ok"]
       /\ store' = Append(store, [message |-> message, timestamp |-> now])
       /\ Proceed(next)
    \/ /\ es_configured
       /\ attempts' = Append(attempts, Attempt("Store", "raised", <<>>, message))
       /\ polls' = [polls EXCEPT ![Len(polls)].persist = "raised"]
       /\ store' = store
       /\ Propagate

\* history record of one poll: what was read (input), what it yielded, how many
\* documents the store held, and what became of the store write (persist)
Poll(origins, ev, probes, input) ==
    [at |-> now, origins |-> origins, events |-> ev, probes |-> probes,
     input |-> input, stored |-> Len(store),
     persist |-> IF ev = <<>> THEN "none" ELSE "pending"]

-----------------------------------------------------------------------------
\* MonitoringAgent.run

\* mutant of Agent_run: the `if not events: return` is missing
Agent_run_no_guard ==
    /\ prog = "agent"
    /\ pc = "idle"
    /\ runs < MaxRuns
    /\ LET ev == scan_logs(log_paths, files) IN
       /\ events' = ev
       /\ polls' = Append(polls, Poll(scan_origins(log_paths, files), ev, <<>>, files))
       /\ message' = Join(<<"\n">>, ev)
       /\ pc' = "log_to_elastic"
       /\ status' = "running"
    /\ runs' = runs + 1
    /\ attempts' = <<>>
    /\ UNCHANGED <<libs, env, files, now, prog, store, appends>>

Agent_run ==
    /\ prog = "agent"
    /\ pc = "idle"
    /\ runs < MaxRuns
    /\ LET ev == scan_logs(log_paths, files) IN
       /\ events' = ev
       /\ polls' = Append(polls, Poll(scan_origins(log_paths, files), ev, <<>>, files))
       /\ IF ev = <<>>
          THEN /\ message' = <<>>
               /\ pc' = "idle"
               /\ status' = "returned"
          ELSE /\ message' = Join(<<"\n">>, ev)
               /\ pc' = "log_to_elastic"
               /\ status' = "running"
    /\ runs' = runs + 1
    /\ attempts' = <<>>
    /\ UNCHANGED <<libs, env, files, now, prog, store, appends>>

Agent_log_to_elastic ==
    /\ prog = "agent"
    /\ pc = "log_to_elastic"
    /\ StoreCall("notify_whatsapp")
    /\ UNCHANGED <<libs, env, files, now, prog, events, message, runs, appends>>

Agent_notify_whatsapp ==
    /\ prog = "agent"
    /\ pc = "notify_whatsapp"
    /\ SinkCall("Chat", twilio_configured, <<>>, message, "notify_email")
    /\ UNCHANGED <<libs, env, files, now, prog, events, message, store, polls, runs, appends>>

Agent_notify_email ==
    /\ prog = "agent"
    /\ pc = "notify_email"
    /\ SinkCall("Email", smtp_configured, <<"Log Alert">>, message, "schedule_teams_meeting")
    /\ UNCHANGED <<libs, env, files, now, prog, events, message, store, polls, runs, appends>>

Agent_schedule_teams_meeting ==
    /\ prog = "agent"
    /\ pc = "schedule_teams_meeting"
    /\ SinkCall("Meeting", graph_configured, <<"Incident Response">>, <<>>, "generate_pdf_report")
    /\ UNCHANGED <<libs, env, files, now, prog, events, message, store, polls, runs, appends>>

Agent_generate_pdf_report ==
    /\ prog = "agent"
    /\ pc = "generate_pdf_report"
    /\ SinkCall("Report", fpdf_configured, <<>>, message, "idle")
    /\ UNCHANGED <<libs, env, files, now, prog, events, message, store, polls, runs, appends>>

-----------------------------------------------------------------------------
\* MonitoringSystem.run

System_run(resp) ==
    /\ prog = "system"
    /\ pc = "idle"
    /\ runs < MaxRuns
    /\ LET res == check_servers(servers, resp)
           failures == res.failures
           down == SelectSeq([i \in 1..Len(servers) |-> <<i, 0>>],
                             LAMBDA o : resp[o[1]] # 0)
       IN
       /\ events' = failures
       /\ polls' = Append(polls, Poll(down, failures, res.probes, resp))
       /\ IF failures # <<>>
          THEN /\ message' = <<"Server failures detected: ">> \o Join(<<", ">>, failures)
               /\ pc' = "log_to_elastic"
               /\ status' = "running"
          ELSE /\ message' = <<>>
               /\ pc' = "idle"
               /\ status' = "returned"
    /\ runs' = runs + 1
    /\ attempts' = <<>>
    /\ UNCHANGED <<libs, env, files, now, prog, store, appends>>

System_log_to_elastic ==
    /\ prog = "system"
    /\ pc = "log_to_elastic"
    /\ StoreCall("notify_whatsapp")
    /\ UNCHANGED <<libs, env, files, now, prog, events, message, runs, appends>>

System_notify_whatsapp ==
    /\ prog = "system"
    /\ pc = "notify_whatsapp"
    /\ SinkCall("Chat", twilio_configured, <<>>, message, "notify_email")
    /\ UNCHANGED <<libs, env, files, now, prog, events, message, store, polls, runs, appends>>

System_notify_email ==
    /\ prog = "system"
    /\ pc = "notify_email"
    /\ SinkCall("Email", smtp_configured, <<"Server Alert">>, message, "generate_pdf_report")
    /\ UNCHANGED <<libs, env, files, now, prog, events, message, store, polls, runs, appends>>

System_generate_pdf_report ==
    /\ prog = "system"
    /\ pc = "generate_pdf_report"
    /\ SinkCall("Report", fpdf_configured, <<>>, message, "idle")
    /\ UNCHANGED <<libs, env, files, now, prog, events, message, store, polls, runs, appends>>

-----------------------------------------------------------------------------
\* Environment: the applications append to their log files, time passes

\* text written at the end of a file continues an unterminated last line
AppendText(lines, text) ==
    IF lines # <<>> /\ lines[Len(lines)][Len(lines[Len(lines)])] # "\n"
    THEN [lines EXCEPT ![Len(lines)] = @ \o text]
    ELSE Append(lines, text)

\* (what was written before the first poll is part of the initial content,
\* what is written after the last poll is never read)
WriteLog(i, text) ==
    /\ prog = "agent"
    /\ pc = "idle"
    /\ runs >= 1 /\ runs < MaxRuns
    /\ appends < MaxAppends
    /\ files[i].exists
    /\ files' = [files EXCEPT ![i].lines = AppendText(@, text)]
    /\ appends' = appends + 1
    /\ UNCHANGED <<libs, env, now, pc, prog, events, message, attempts, store,
                   polls, runs, status>>

\* (the clock starts at the first poll and is last read by the last one)
Tick ==
    /\ pc = "idle"
    /\ runs >= 1 /\ runs < MaxRuns
    /\ now < MaxTime
    /\ now' = now + 1
    /\ UNCHANGED <<libs, env, files, pc, prog, events, message, attempts, store,
                   polls, runs, status, appends>>

-----------------------------------------------------------------------------
AgentNext ==
    \/ Agent_run
    \/ Agent_log_to_elastic
    \/ Agent_notify_whatsapp
    \/ Agent_notify_email
    \/ Agent_schedule_teams_meeting
    \/ Agent_generate_pdf_report

SystemNext ==
    \/ \E resp \in [1..Len(servers) -> ExitStatuses] : System_run(resp)
    \/ System_log_to_elastic
    \/ System_notify_whatsapp
    \/ System_notify_email
    \/ System_generate_pdf_report

EnvNext ==
    \/ \E i \in 1..Len(log_paths), text \in AppendSamples : WriteLog(i, text)
    \/ Tick

Next == AgentNext \/ SystemNext \/ EnvNext

Spec == Init /\ [][Next]_vars

-----------------------------------------------------------------------------
\* Vocabulary of the properties

\* the four sink kinds in priority order
SinkKinds == <<"Chat", "Email", "Meeting", "Report">>

Range(seq) == {seq[i] : i \in 1..Len(seq)}

\* run() has ended (by returning or by an exception)
RunEnded == pc = "idle" /\ status \in {"returned", "raised"}

\* a dispatch cycle (a run that detected at least one event) has ended
CycleEnded == RunEnded /\ events # <<>>

Attempted(k) == \E i \in 1..Len(attempts) : attempts[i].sink = k

Outcome(k, o) ==
    \E i \in 1..Len(attempts) : attempts[i].sink = k /\ attempts[i].outcome = o

NoRaise == \A i \in 1..Len(attempts) : attempts[i].outcome # "raised"

\* the sink kinds attempted by the cycle, in the order of the attempts
SinkOrder ==
    LET a == SelectSeq(attempts, LAMBDA x : x.sink # "Store")
    IN  [i \in 1..Len(a) |-> a[i].sink]

\* a sink has what it requires: its client library and its credentials
Ready(k) ==
    CASE k = "Chat"    -> libs /\ {"TWILIO_SID", "TWILIO_TOKEN"} \subseteq env
      [] k = "Email"   -> libs /\ {"EMAIL_FROM", "EMAIL_PASSWORD"} \subseteq env
      [] k = "Meeting" -> libs /\ "GRAPH_TOKEN" \in env
      [] k = "Report"  -> libs

\* "ERROR" occurs in the line
HasPattern(s) ==
    \E i \in 1..Len(s) :
        /\ i + 4 <= Len(s)
        /\ s[i] = "E" /\ s[i + 1] = "R" /\ s[i + 2] = "R" /\ s[i + 3] = "O" /\ s[i + 4] = "R"

\* the line without its leading and trailing whitespace
Trimmed(s) ==
    LET inked == {i \in 1..Len(s) : s[i] \notin {" ", "\n", "\t"}}
    IN  IF inked = {} THEN <<>>
        ELSE SubSeq(s, CHOOSE a \in inked : \A x \in inked : a <= x,
                       CHOOSE b \in inked : \A x \in inked : b >= x)

Available(f) == f.exists /\ f.readable

\* the positions <<path, line>> of the lines of fs that carry the pattern
Matches(fs) ==
    UNION { {<<i, k>> : k \in {k \in 1..Len(fs[i].lines) : HasPattern(fs[i].lines[k])}}
            : i \in {i \in 1..Len(log_paths) : Available(fs[i])} }

Before(x, y) == x[1] < y[1] \/ (x[1] = y[1] /\ x[2] < y[2])

\* one event per matching line, path order first, then line order
ExpectedEvents(fs) ==
    LET M == Matches(fs)
        At(r) == CHOOSE m \in M : Cardinality({x \in M : Before(x, m)}) = r - 1
    IN  [r \in 1..Cardinality(M) |->
            LET m == At(r)
            IN  log_paths[m[1]] \o <<": ">> \o Trimmed(fs[m[1]].lines[m[2]])]

\* the targets whose probe failed, in configured order
ExpectedFailures(resp) ==
    LET D == {i \in 1..Len(servers) : resp[i] # 0}
        At(r) == CHOOSE i \in D : Cardinality({x \in D : x < i}) = r - 1
    IN  [r \in 1..Cardinality(D) |-> servers[At(r)]]

Lower(c) ==
    CASE c = "E" -> "e" [] c = "R" -> "r" [] c = "O" -> "o" [] c = "S" -> "s"
      [] OTHER -> c

\* fingerprint of an event: its source and its text, normalized
Fingerprint(ev) == [i \in 1..Len(ev) |-> Lower(ev[i])]

Fingerprints(p) == {Fingerprint(e) : e \in Range(p.events)}

\* dedup_window, minutes
DedupWindow == 5

-----------------------------------------------------------------------------
\* C1: in a dispatch cycle, when the call of one sink raises, every other sink
\* of the cycle is still attempted.  (Stated as the claim has it; run() has no
\* try/except, so the sinks after the raising one are never called.)
C1_FailureContainment ==
    CycleEnded =>
        \A k \in Range(SinkKinds) :
            Outcome(k, "raised") =>
                \A j \in Range(SinkKinds) \ {k} :
                    (prog = "agent" \/ j # "Meeting") => Attempted(j)

\* C2: a sink without its configuration is skipped, which is no error, and the
\* skip never blocks the other sinks: in a cycle of the log pipeline a sink is
\* left unattempted only behind a call that raised, an unconfigured sink is
\* recorded skipped, and when no call raises the cycle returns normally with
\* every configured sink sent, for every set of unconfigured sinks.
C2_SkipNeverBlocks ==
    (prog = "agent" /\ CycleEnded) =>
        /\ \A k \in Range(SinkKinds) :
              (~Ready(k) /\ Attempted(k)) =>
                  (Outcome(k, "skipped") /\ ~Outcome(k, "ok") /\ ~Outcome(k, "raised"))
        /\ \A i \in 1..Len(SinkKinds) :
              ~Attempted(SinkKinds[i]) =>
                  \/ Outcome("Store", "raised")
                  \/ \E j \in 1..(i - 1) : Outcome(SinkKinds[j], "raised")
        /\ NoRaise =>
              /\ status = "returned"
              /\ \A k \in Range(SinkKinds) : Attempted(k)
              /\ \A k \in Range(SinkKinds) : Ready(k) => Outcome(k, "ok")

\* C2 witness: chat and meeting unconfigured and skipped, email and report
\* still sent, the run returned
C2_Witness ==
    /\ prog = "agent" /\ CycleEnded /\ status = "returned"
    /\ Outcome("Chat", "skipped") /\ Outcome("Email", "ok")
    /\ Outcome("Meeting", "skipped") /\ Outcome("Report", "ok")

\* C3: events sharing a fingerprint within dedup_window start one notification
\* cycle: no two cycles started within the window share a fingerprint.
C3_OneCyclePerFingerprint ==
    \A i, j \in 1..Len(polls) :
        (i < j /\ polls[j].at - polls[i].at <= DedupWindow) =>
            Fingerprints(polls[i]) \cap Fingerprints(polls[j]) = {}

\* C4: over polls of files that only grow, a line yielded by an earlier poll
\* is never yielded again.
C4_ReadCursor ==
    prog = "agent" =>
        \A i, j \in 1..Len(polls) :
            i < j => Range(polls[i].origins) \cap Range(polls[j].origins) = {}

\* C5: every dispatch cycle of either pipeline attempts each of the four sink
\* kinds exactly once, in the order Chat, Email, Meeting, Report.  (Checked on
\* the cycles that return normally, where no raising call cuts the cycle.)
C5_FixedOrder ==
    (CycleEnded /\ status = "returned") => SinkOrder = SinkKinds

C7_OneEventPerMatchingLine ==
    (prog = "agent" /\ polls # <<>>) =>
        polls[Len(polls)].events = ExpectedEvents(polls[Len(polls)].input)

\* C7 witness: a 3-line file with the pattern on line 2 only yields one event
C7_Witness ==
    /\ prog = "agent"
    /\ \E n \in 1..Len(polls) :
          /\ polls[n].input[1] = File(TRUE, TRUE, <<L_ok, L_disk, L_ok>>)
          /\ ~polls[n].input[2].exists
          /\ polls[n].events = << <<"a", ": ", "E", "R", "R", "O", "R", " ", "d">> >>

\* C8: a poll of the liveness source probes each configured target once, in
\* order, and yields exactly the targets whose probe failed, in order.
C8_ProbeEachTarget ==
    (prog = "system" /\ polls # <<>>) =>
        /\ polls[Len(polls)].probes = servers
        /\ polls[Len(polls)].events = ExpectedFailures(polls[Len(polls)].input)

\* C8 witness: the first target answers, the second does not
C8_Witness ==
    /\ prog = "system"
    /\ \E n \in 1..Len(polls) :
          /\ polls[n].input = <<0, 256>>
          /\ polls[n].events = <<servers[2]>>

\* C9: when the store write of a cycle fails or the store is unavailable, the
\* notifications of the cycle are not aborted, and the event is retained: the
\* next poll attempts the write again.
C9_AtLeastOncePersistence ==
    RunEnded =>
        LET n == Len(polls) IN
        /\ (n >= 1 /\ polls[n].persist \in {"raised", "skipped"}) =>
              \A k \in Range(SinkKinds) :
                  (prog = "agent" \/ k # "Meeting") => Attempted(k)
        /\ (n >= 2 /\ polls[n - 1].persist \in {"raised", "skipped"}) =>
              /\ Attempted("Store")
              /\ Range(polls[n - 1].events) \subseteq Range(polls[n].events)

\* the message run() builds from its events
Batch ==
    IF prog = "agent" THEN Join(<<"\n">>, events)
    ELSE <<"Server failures detected: ">> \o Join(<<", ">>, events)

\* what C10 says of a run apart from the store write: no event, no effect;
\* the store call comes first; one batched message; each sink at most once
C10_Frame ==
    LET n == Len(polls) IN
    /\ (RunEnded /\ events = <<>>) =>
          /\ attempts = <<>>
          /\ status = "returned"
          /\ Len(store) = polls[n].stored
    /\ (n >= 1 /\ events # <<>>) =>
          /\ attempts # <<>> => attempts[1].sink = "Store"
          /\ \A i \in 1..Len(attempts) :
                /\ attempts[i].sink \in {"Store", "Chat", "Email", "Report"} =>
                      attempts[i].body = Batch
                /\ \A j \in 1..Len(attempts) :
                      attempts[i].sink = attempts[j].sink => i = j

\* C10 as claimed: a run with an event writes to the store before it invokes
\* any sink.
C10_StoreWrittenBeforeSinks ==
    /\ C10_Frame
    /\ (Len(polls) >= 1 /\ events # <<>> /\ SinkOrder # <<>>) =>
          /\ Len(store) = polls[Len(polls)].stored + 1
          /\ store[Len(store)].message = Batch

\* C10 amended: a run without events calls nothing and leaves the store alone;
\* a run with events calls log_to_elastic before any sink, which writes the
\* batched message when the Elasticsearch client is configured and writes
\* nothing (the sinks are still invoked) when it is not; each sink is invoked
\* at most once, with the one batched message.
C10_StoreCalledBeforeSinks ==
    /\ C10_Frame
    /\ (Len(polls) >= 1 /\ events # <<>> /\ SinkOrder # <<>>) =>
          IF libs
          THEN /\ attempts[1].outcome = "ok"
               /\ Len(store) = polls[Len(polls)].stored + 1
               /\ store[Len(store)].message = Batch
          ELSE /\ attempts[1].outcome = "skipped"
               /\ Len(store) = polls[Len(polls)].stored

\* C10 witness: two events batched, stored, then all four sinks called
C10_Witness ==
    /\ prog = "agent" /\ CycleEnded /\ status = "returned"
    /\ Len(events) = 2
    /\ Outcome("Store", "ok") /\ Len(store) = 1
    /\ SinkOrder = SinkKinds

====
